---- MODULE Spec2Model ----
(***************************************************************************)
(* PoserDialValue.py: recovery of a parameter's dial value by removing the *)
(* parameter's value operations, reading the value and re-creating them.   *)
(*                                                                         *)
(* One parameter (theParm) of one scene is modelled.  Numbers are counted  *)
(* in halves (the value 2.0 is 4, the delta 0.5 is 1), so that the product *)
(* delta * sourceValue of two such numbers is (a * b) \div 2.              *)
(***************************************************************************)
EXTENDS Integers, Sequences, FiniteSets, TLC

\* ------------------------------------------------------------------ bounds
MaxOps == 3      \* longest value operation list of theParm
MaxFrame == 1    \* the scene has the frames 0..MaxFrame
MaxCalls == 2    \* entry point calls made in one run
MaxTests == 2    \* TestMethods calls made in one run

\* --------------------------------------------------------------- host data
NoneParm == "None"
SrcParm == "Src"

kValueOpTypeCodeDELTAADD == "DELTAADD"
kValueOpTypeCodeKEY == "KEY"
kValueOpTypeCodePLUS == "PLUS"
kValueOpTypeCodePYTHONCALLBACK == "PYTHONCALLBACK"

Frames == 0..MaxFrame

\* A value operation handle: Type(), SourceParameter(), Delta(), GetKey(0..NumKeys()-1).
MkOp(t, s, d, ks) == [type |-> t, src |-> s, delta |-> d, keys |-> ks]

\* The value operations a loaded scene can hold on theParm; the third one is a
\* DELTAADD whose channel dependency was defined before its channel existed.
ValOpAlphabet ==
    { MkOp(kValueOpTypeCodePYTHONCALLBACK, NoneParm, 0, << >>),
      MkOp(kValueOpTypeCodeDELTAADD, SrcParm, 1, << >>),
      MkOp(kValueOpTypeCodeDELTAADD, NoneParm, 1, << >>),
      MkOp(kValueOpTypeCodeKEY, SrcParm, 0, << <<0, 2>>, <<8, 6>> >>),
      MkOp(kValueOpTypeCodePLUS, SrcParm, 0, << >>) }

RECURSIVE SeqsUpTo(_, _)
SeqsUpTo(S, n) ==
    IF n = 0 THEN { << >> }
    ELSE LET shorter == SeqsUpTo(S, n - 1)
         IN  shorter \cup { Append(s, x) : s \in shorter, x \in S }

VARIABLES
    ops,         \* theParm.ValueOperations() as the host holds it now
    frame,       \* poser.Scene().Frame()
    host,        \* which optional queries this host version has
    remove,      \* the module's global flag
    pc,          \* position of the running call
    fn,          \* the entry point that is running
    firstFrame,
    lastFrame,
    theValOps,   \* the list RemoveValueOperations took at its start
    k,           \* position of the running loop (1-based)
    theValues,   \* theDialValue / theValues / theKeyFrames of the running call
    result,      \* how the call ended, and its value
    opsBefore,   \* history: ops when the call started
    frameBefore, \* history: frame when the call started
    lastPrim,    \* history: the last host primitive that changed theParm
    nRemove,     \* history: RemoveValueOperations calls of this call
    nRestore,    \* history: RestoreValueOperations calls of this call
    nDelete,     \* history: DeleteValueOperation calls of this call
    nAdd,        \* history: AddValueOperation calls of this call
    metAbsent,   \* history: the remove loop examined an operation without source
    hostFault,   \* history: a host primitive threw in this call
    calls,       \* entry point calls started so far
    queried,     \* history: theParm.UnaffectedValue() attempts of this call
    queriedBefore, \* history: an earlier call attempted theParm.UnaffectedValue()
    getKeyCalls, \* history: the indices handed to GetKey by the last loop over keys
    actorParms,        \* PoserUI: names of the probed actor's parameters
    animSets,          \* PoserUI: names of the scene's animation sets
    hostMethods,       \* PoserUI: the probed methods this host version has
    PoserPythonMethod, \* PoserUI: the method availability test dict
    tmPc,              \* PoserUI: position of the running TestMethods call
    RemoveTestParm,    \* PoserUI: local of TestMethods
    RemoveAnimSet,     \* PoserUI: local of TestMethods
    parmsBefore,       \* history: actorParms when TestMethods started
    animSetsBefore,    \* history: animSets when TestMethods started
    tests              \* TestMethods calls started so far

dialVars == << ops, frame, host, remove, pc, fn, firstFrame, lastFrame, theValOps, k,
               theValues, result, opsBefore, frameBefore, lastPrim, nRemove, nRestore,
               nDelete, nAdd, metAbsent, hostFault, calls, queried, queriedBefore,
               getKeyCalls >>

testVars == << actorParms, animSets, hostMethods, PoserPythonMethod, tmPc, RemoveTestParm,
               RemoveAnimSet, parmsBefore, animSetsBefore, tests >>

vars == << dialVars, testVars >>


\* ------------------------------------------------------ host evaluation
\* The keyframe track of theParm: dial value 2.0 at frame 0, rising by 0.5 a frame.
KeyframeValue(f) == 4 + f

\* theSourceParm.Value(): the source parameter stands at 4.0.
SourceValue(p) == IF p = SrcParm THEN 8 ELSE 0

\* The keyed operation's piecewise function of the source value: constant
\* extrapolation below the smallest and above the largest key, linear between.
RECURSIVE KeyedValue(_, _)
KeyedValue(keys, s) ==
    IF keys = << >> THEN 0
    ELSE IF Len(keys) = 1 \/ s <= keys[1][1] THEN keys[1][2]
    ELSE IF s >= keys[2][1] /\ Len(keys) > 2 THEN KeyedValue(Tail(keys), s)
    ELSE IF s >= keys[2][1] THEN keys[2][2]
    ELSE keys[1][2]
         + ((keys[2][2] - keys[1][2]) * (s - keys[1][1])) \div (keys[2][1] - keys[1][1])

IsCallback(op) == op.type = kValueOpTypeCodePYTHONCALLBACK

\* What one value operation adds to the value it is applied to.  A python
\* callback is a user procedure: here it adds 1.0.
ValOpInfluence(op) ==
    IF IsCallback(op) THEN 2
    ELSE IF op.src = NoneParm THEN 0
    ELSE IF op.type = kValueOpTypeCodeDELTAADD THEN (op.delta * SourceValue(op.src)) \div 2
    ELSE IF op.type = kValueOpTypeCodeKEY THEN KeyedValue(op.keys, SourceValue(op.src))
    ELSE SourceValue(op.src)

RECURSIVE SumInfluence(_)
SumInfluence(oplist) ==
    IF oplist = << >> THEN 0
    ELSE ValOpInfluence(Head(oplist)) + SumInfluence(Tail(oplist))

\* theParm.ValueFrame( f ): the keyframe value plus every attached operation.
ValueFrame(oplist, f) == KeyframeValue(f) + SumInfluence(oplist)

\* theParm.Value(): the computed value at the scene's current frame.
Value(oplist, cur) == ValueFrame(oplist, cur)

\* theParm.UnaffectedValue(), where the host has it: the dial at the current frame.
UnaffectedValue(cur) == KeyframeValue(cur)

\* KeyFrame( frame, value, const, linear, spline, sbreak, haskey )
KeyFrame(f, v) ==
    [frame |-> f, value |-> v, const |-> FALSE, linear |-> f = 1,
     spline |-> f # 1, sbreak |-> FALSE, haskey |-> f = 0]

\* The host's DeleteValueOperation( index ) on its list, index zero-based.
DeleteAt(oplist, index) ==
    [j \in 1..(Len(oplist) - 1) |-> IF j <= index THEN oplist[j] ELSE oplist[j + 1]]

\* Deleting an operation whose SourceParameter() is None takes Poser down
\* before python can handle anything.
DeleteCrashesHost(op) == ~IsCallback(op) /\ op.src = NoneParm

\* newValOp.InsertKey( theKey, theValue ): the host keeps the keys ascending.
RECURSIVE InsertKey(_, _, _)
InsertKey(keys, key, val) ==
    IF keys = << >> THEN << <<key, val>> >>
    ELSE IF key < keys[1][1] THEN << <<key, val>> >> \o keys
    ELSE IF key = keys[1][1] THEN << <<key, val>> >> \o Tail(keys)
    ELSE << keys[1] >> \o InsertKey(Tail(keys), key, val)

\* theParm.AddValueOperation( type, source ): a new operation, not configured.
AddValueOperation(t, s) == MkOp(t, s, 0, << >>)

\* ----------------------------------------------------- PoserDialValue.py
\* Mutant of ZipIndex: range( n ), the indices counted upwards.
ZipIndexAscending(n, i) == i - 1

\* range( n - 1, -1, -1 ) at the i-th iteration (i from 1) of the zip.
ZipIndex(n, i) == n - i

\* Mutant of SourcePresent: the pre-test of the source parameter is left out.
SourcePresentUntested(op) == TRUE

\* theValOp.SourceParameter() is not None
SourcePresent(op) == op.src # NoneParm

\* Mutant of HasValueOperations: an empty list takes the removal path as well.
HasValueOperationsOrNone(oplist) == Len(oplist) >= 0

\* theParm.NumValueOperations() > 0
HasValueOperations(oplist) == Len(oplist) > 0

\* Mutant of KeyIndices: range( 1, theValOp.NumKeys() + 1 ), the loop the
\* source has in a comment.
KeyIndicesOneBased(op) == [j \in 1..Len(op.keys) |-> j]

\* range( theValOp.NumKeys() ): the GetKey indices read, zero-based.
KeyIndices(op) == [j \in 1..Len(op.keys) |-> j - 1]

\* theValOp.GetKey( index ), index zero-based; what the host hands out for an
\* index that is no key's is of no use.
GetKey(op, index) == IF index + 1 \in DOMAIN op.keys THEN op.keys[index + 1] ELSE <<0, 0>>

RECURSIVE InsertKeys(_, _, _)
InsertKeys(keys, op, indices) ==
    IF indices = << >> THEN keys
    ELSE InsertKeys(InsertKey(keys, GetKey(op, Head(indices))[1], GetKey(op, Head(indices))[2]),
                    op, Tail(indices))

\* Mutant of RestoredOp: the operation is re-added and not configured.
RestoredOpUnconfigured(theValOp) == AddValueOperation(theValOp.type, theValOp.src)

\* Mutant of RestoredOp: the keys of a keyed operation are not inserted.
RestoredOpWithoutKeys(theValOp) ==
    IF theValOp.type = kValueOpTypeCodeDELTAADD
    THEN [AddValueOperation(theValOp.type, theValOp.src) EXCEPT !.delta = theValOp.delta]
    ELSE AddValueOperation(theValOp.type, theValOp.src)

\* One pass of RestoreValueOperations' loop body for an entry that is no callback.
RestoredOp(theValOp) ==
    LET newValOp == AddValueOperation(theValOp.type, theValOp.src)
    IN  IF theValOp.type = kValueOpTypeCodeDELTAADD
        THEN [newValOp EXCEPT !.delta = theValOp.delta]
        ELSE IF theValOp.type = kValueOpTypeCodeKEY
        THEN [newValOp EXCEPT !.keys = InsertKeys(<< >>, theValOp, KeyIndices(theValOp))]
        ELSE newValOp

\* Mutant of FrameValues: range( firstFrame, lastFrame ), the last frame left out.
FrameValuesOpenEnded(oplist, a, b) == [j \in 1..(b - a) |-> ValueFrame(oplist, a + j - 1)]

\* [ theParm.ValueFrame( frame ) for frame in range( firstFrame, lastFrame + 1 ) ]
FrameValues(oplist, a, b) == [j \in 1..(b - a + 1) |-> ValueFrame(oplist, a + j - 1)]

\* Mutant of FrameKeyFrames: every record holds the value of the first frame.
FrameKeyFramesOfFirstFrame(oplist, a, b) ==
    [j \in 1..(b - a + 1) |-> KeyFrame(a + j - 1, ValueFrame(oplist, a))]

\* [ KeyFrame( frame, theParm.ValueFrame( frame ), ... ) for frame in range( ... ) ]
FrameKeyFrames(oplist, a, b) ==
    [j \in 1..(b - a + 1) |-> KeyFrame(a + j - 1, ValueFrame(oplist, a + j - 1))]

NoPrim == [prim |-> "none"]
NoResult == [kind |-> "none"]
Returned(v) == [kind |-> "return", val |-> v]
Raised(msg) == [kind |-> "raise", val |-> msg]

\* The host versions: before the per-frame flag queries, with them, and with
\* UnaffectedValue() as well (P11.0.4 on).
HostVersions ==
    { [unaffected |-> FALSE, flags |-> FALSE],
      [unaffected |-> FALSE, flags |-> TRUE],
      [unaffected |-> TRUE, flags |-> TRUE] }

\* ------------------------------------------------------------ PoserUI.py
TestParmName == "RemoveMe"
PPM_HASKEYATFRAME == "HasKeyAtFrame"
PPM_ISCONTROLPROP == "IsControlProp"
PPM_ALLCUSTOMDATA == "AllCustomData"
PPM_ANIMSETNAME == "AnimSetName"
PPM_GETIDTYPE == "GetIdType"
PPM == {PPM_HASKEYATFRAME, PPM_ISCONTROLPROP, PPM_ALLCUSTOMDATA, PPM_ANIMSETNAME,
        PPM_GETIDTYPE}

\* The state PoserUI is imported into, with a scene whose first actor has the
\* parameter xTran and no animation set: TestMethods has run at import.
TestMethodsImported ==
    /\ actorParms = {"xTran"}
    /\ animSets = {}
    /\ hostMethods = PPM
    /\ PoserPythonMethod = [m \in PPM |-> "True"]
    /\ tmPc = "done"
    /\ RemoveTestParm = FALSE
    /\ RemoveAnimSet = FALSE
    /\ parmsBefore = {"xTran"}
    /\ animSetsBefore = {}
    /\ tests = 1

Init ==
    /\ ops \in SeqsUpTo(ValOpAlphabet, MaxOps)
    /\ frame = 0
    /\ host \in HostVersions
    /\ remove \in BOOLEAN
    /\ pc = "idle"
    /\ fn = "none"
    /\ firstFrame = 0
    /\ lastFrame = 0
    /\ theValOps = << >>
    /\ k = 0
    /\ theValues = << >>
    /\ result = NoResult
    /\ opsBefore = ops
    /\ frameBefore = frame
    /\ lastPrim = NoPrim
    /\ nRemove = 0
    /\ nRestore = 0
    /\ nDelete = 0
    /\ nAdd = 0
    /\ metAbsent = FALSE
    /\ hostFault = FALSE
    /\ calls = 0
    /\ queried = 0
    /\ queriedBefore = FALSE
    /\ getKeyCalls = << >>
    /\ TestMethodsImported

\* A caller can start an entry point when none is running and Poser is up.  A
\* caller to whom a call raised skips theParm from then on.
CanCall ==
    /\ pc = "idle" \/ (pc = "done" /\ result.kind = "return")
    /\ calls < MaxCalls

\* What every entry point call starts with: the history of the new call.
StartCall(f, a, b) ==
    /\ fn' = f
    /\ firstFrame' = a
    /\ lastFrame' = b
    /\ opsBefore' = ops
    /\ frameBefore' = frame
    /\ lastPrim' = NoPrim
    /\ nRestore' = 0
    /\ nDelete' = 0
    /\ nAdd' = 0
    /\ metAbsent' = FALSE
    /\ hostFault' = FALSE
    /\ calls' = calls + 1
    /\ queriedBefore' = (queriedBefore \/ queried > 0)
    /\ UNCHANGED << ops, host, remove, testVars >>

\* The call ends here, without RemoveValueOperations having been entered.
EndAtOnce(res) ==
    /\ pc' = "done"
    /\ result' = res
    /\ nRemove' = 0
    /\ theValOps' = << >>
    /\ k' = 0
    /\ theValues' = << >>

\* Mutant of EnterRemove: the callbacks are left out of the list taken.
EnterRemoveWithoutCallbacks ==
    /\ pc' = "remove"
    /\ result' = NoResult
    /\ nRemove' = 1
    /\ theValOps' = SelectSeq(ops, LAMBDA op : op.type # kValueOpTypeCodePYTHONCALLBACK)
    /\ k' = 1
    /\ theValues' = << >>

\* theValOps = RemoveValueOperations( theParm ): its first two statements.
EnterRemove ==
    /\ pc' = "remove"
    /\ result' = NoResult
    /\ nRemove' = 1
    /\ theValOps' = ops
    /\ k' = 1
    /\ theValues' = << >>

\* Where the scene's frame stands after the single-frame try block, whose
\* SetFrame( frame ) is skipped when a query raises.
FrameAfterFailedQuery(cur, a) == a

\* Mutant of FastValueOK: the direct query is never used.
FastValueNever == FALSE

\* Whether the try block of DialValue returns: theParm.UnaffectedValue() exists.
FastValueOK == host.unaffected

\* Mutant of SingleFrame: the try block is entered for a range as well.
SingleFrameOrRange(a, b) == TRUE

\* if lastFrame == firstFrame: the try block with UnaffectedValue() is entered.
SingleFrame(a, b) == a = b

\* Whether the single-frame try block of DialValueFrames / DialAnimation succeeds.
FastFramesOK(a, b) == SingleFrame(a, b) /\ host.unaffected
FastAnimationOK(a, b) == SingleFrame(a, b) /\ host.unaffected /\ host.flags

\* The loop of RemoveValueOperations from its i-th iteration on, on a host
\* whose DeleteValueOperation does not fail of its own: the list left on
\* theParm, and whether the loop came to its end.
RECURSIVE RemoveLoop(_, _, _)
RemoveLoop(cur, snapshot, i) ==
    IF i > Len(snapshot) THEN [ok |-> TRUE, ops |-> cur]
    ELSE IF IsCallback(snapshot[i]) THEN RemoveLoop(cur, snapshot, i + 1)
    ELSE IF ~SourcePresent(snapshot[i]) THEN [ok |-> FALSE, ops |-> cur]
    ELSE IF ZipIndex(Len(snapshot), i) \notin 0..(Len(cur) - 1) THEN [ok |-> FALSE, ops |-> cur]
    ELSE IF DeleteCrashesHost(cur[ZipIndex(Len(snapshot), i) + 1]) THEN [ok |-> FALSE, ops |-> cur]
    ELSE RemoveLoop(DeleteAt(cur, ZipIndex(Len(snapshot), i)), snapshot, i + 1)

\* What DialValue( theParm ) gives its caller when theParm holds oplist and the
\* scene stands at frame cur: the whole function, as one value.
DialValueOutcome(oplist, cur) ==
    IF FastValueOK THEN Returned(UnaffectedValue(cur))
    ELSE IF HasValueOperations(oplist)
    THEN IF remove
         THEN IF RemoveLoop(oplist, oplist, 1).ok
              THEN Returned(Value(RemoveLoop(oplist, oplist, 1).ops, cur))
              ELSE Raised("PoserError")
         ELSE Raised("UnboundLocalError: theDialValue")
    ELSE Returned(Value(oplist, cur))

\* What DialValueFrames( theParm, a, b ) gives its caller when theParm holds
\* oplist: the whole function, as one value.
DialValueFramesOutcome(oplist, a, b) ==
    IF FastFramesOK(a, b) THEN Returned(<< UnaffectedValue(a) >>)
    ELSE IF HasValueOperations(oplist) /\ remove
    THEN IF RemoveLoop(oplist, oplist, 1).ok
         THEN Returned(FrameValues(RemoveLoop(oplist, oplist, 1).ops, a, b))
         ELSE Raised("PoserError")
    ELSE Returned(FrameValues(oplist, a, b))

\* DialValue( theParm ) up to its call of RemoveValueOperations.
DialValue ==
    /\ CanCall
    /\ StartCall("DialValue", frame, frame)
    /\ frame' = frame
    /\ queried' = 1
    /\ getKeyCalls' = << >>
    /\ IF FastValueOK
       THEN EndAtOnce(Returned(UnaffectedValue(frame)))
       ELSE IF HasValueOperations(ops)
       THEN IF remove
            THEN EnterRemove
            ELSE EndAtOnce(Raised("UnboundLocalError: theDialValue"))
       ELSE EndAtOnce(Returned(Value(ops, frame)))

\* DialValueFrames( theParm, firstFrame, lastFrame ) up to RemoveValueOperations.
DialValueFrames ==
    \E a \in Frames, b \in Frames :
        /\ a <= b
        /\ CanCall
        /\ StartCall("DialValueFrames", a, b)
        /\ queried' = IF SingleFrame(a, b) THEN 1 ELSE 0
        /\ getKeyCalls' = << >>
        /\ IF FastFramesOK(a, b)
           THEN /\ frame' = frame
                /\ EndAtOnce(Returned(<< UnaffectedValue(a) >>))
           ELSE /\ frame' = IF SingleFrame(a, b) THEN FrameAfterFailedQuery(frame, a) ELSE frame
                /\ IF HasValueOperations(ops) /\ remove
                   THEN EnterRemove
                   ELSE EndAtOnce(Returned(FrameValues(ops, a, b)))

\* DialAnimation( theParm, firstFrame, lastFrame ) up to RemoveValueOperations.
DialAnimation ==
    \E a \in Frames, b \in Frames :
        /\ a <= b
        /\ CanCall
        /\ StartCall("DialAnimation", a, b)
        /\ queried' = IF SingleFrame(a, b) THEN 1 ELSE 0
        /\ getKeyCalls' = << >>
        /\ IF FastAnimationOK(a, b)
           THEN /\ frame' = frame
                /\ EndAtOnce(Returned(<< KeyFrame(a, UnaffectedValue(a)) >>))
           ELSE /\ frame' = IF SingleFrame(a, b) THEN FrameAfterFailedQuery(frame, a) ELSE frame
                /\ IF HasValueOperations(ops) /\ remove
                   THEN EnterRemove
                   ELSE IF host.flags
                   THEN EndAtOnce(Returned(FrameKeyFrames(ops, a, b)))
                   ELSE EndAtOnce(Raised("AttributeError: ConstantAtFrame"))

\* Mutant of LogLoop: the warning is logged and the walk goes on to the end.
RECURSIVE LogLoopWarningOnly(_)
LogLoopWarningOnly(oplist) ==
    IF oplist = << >> THEN TRUE
    ELSE LogLoopWarningOnly(Tail(oplist))

\* if srcParm: the source parameter of the operation logged is there.
SrcParmSet(theValOp) == theValOp.src # NoneParm

\* The loop of LogValueOperations over theParm.ValueOperations(): FALSE from
\* the first operation that is no callback and has no source, TRUE at the end.
RECURSIVE LogLoop(_)
LogLoop(oplist) ==
    IF oplist = << >> THEN TRUE
    ELSE IF IsCallback(Head(oplist)) THEN LogLoop(Tail(oplist))
    ELSE IF SrcParmSet(Head(oplist)) THEN LogLoop(Tail(oplist))
    ELSE FALSE

\* The GetKey indices of one operation logged or printed.
KeysRead(theValOp) ==
    IF theValOp.type = kValueOpTypeCodeKEY THEN KeyIndices(theValOp) ELSE << >>

\* The GetKey calls of the loop of LogValueOperations, in order; the loop ends
\* at the first operation that is no callback and has no source.
RECURSIVE LogGetKeyCalls(_)
LogGetKeyCalls(oplist) ==
    IF oplist = << >> THEN << >>
    ELSE IF IsCallback(Head(oplist)) THEN LogGetKeyCalls(Tail(oplist))
    ELSE IF SrcParmSet(Head(oplist)) THEN KeysRead(Head(oplist)) \o LogGetKeyCalls(Tail(oplist))
    ELSE << >>

\* The GetKey calls of the loop of ListValueOperations, which prints its
\* warning and goes on.
RECURSIVE ListGetKeyCalls(_)
ListGetKeyCalls(oplist) ==
    IF oplist = << >> THEN << >>
    ELSE IF IsCallback(Head(oplist)) THEN ListGetKeyCalls(Tail(oplist))
    ELSE IF SrcParmSet(Head(oplist)) THEN KeysRead(Head(oplist)) \o ListGetKeyCalls(Tail(oplist))
    ELSE ListGetKeyCalls(Tail(oplist))

\* ListValueOperations( theParm ): it prints and reads theParm; its first
\* print tries theParm.UnaffectedValue().
ListValueOperations ==
    /\ CanCall
    /\ StartCall("ListValueOperations", frame, frame)
    /\ frame' = frame
    /\ queried' = 1
    /\ getKeyCalls' = IF HasValueOperations(ops) THEN ListGetKeyCalls(ops) ELSE << >>
    /\ EndAtOnce(Returned("None"))

\* LogValueOperations( logFile, theParm ): it writes to the log and reads theParm.
LogValueOperations ==
    /\ CanCall
    /\ StartCall("LogValueOperations", frame, frame)
    /\ frame' = frame
    /\ queried' = 0
    /\ getKeyCalls' = IF HasValueOperations(ops) THEN LogGetKeyCalls(ops) ELSE << >>
    /\ EndAtOnce(Returned(IF HasValueOperations(ops) THEN LogLoop(ops) ELSE TRUE))

\* An extra-modular caller calls RemoveValueOperations( theParm ) itself.
CallRemoveValueOperations ==
    /\ CanCall
    /\ StartCall("RemoveValueOperations", frame, frame)
    /\ frame' = frame
    /\ queried' = 0
    /\ getKeyCalls' = << >>
    /\ EnterRemove

callVars == << fn, firstFrame, lastFrame, opsBefore, frameBefore, calls, host,
              remove, frame, queried, queriedBefore, testVars >>

\* The call ends with an exception that reaches the caller.
EndRaise(msg) ==
    /\ pc' = "done"
    /\ result' = Raised(msg)

\* Mutant of DeleteFailed: the message counts the operation from 1.
DeleteFailedOneBased(valOpIndex) ==
    [kind |-> "raise", val |-> "PoserError: Failed in DeleteValueOperation",
     parm |-> "theParm", index |-> valOpIndex + 1]

\* Exception( "PoserError: Failed in {}.DeleteValueOperation( {} )".format(
\*            theParm.InternalName(), valOpIndex ) )
DeleteFailed(valOpIndex) ==
    [kind |-> "raise", val |-> "PoserError: Failed in DeleteValueOperation",
     parm |-> "theParm", index |-> valOpIndex]

\* except: raise Exception( ... ) around DeleteValueOperation
EndDeleteFailed(valOpIndex) ==
    /\ pc' = "done"
    /\ result' = DeleteFailed(valOpIndex)

\* One iteration of the loop of RemoveValueOperations:
\*   for ( valOpIndex, theValOp ) in zip( range( n - 1, -1, -1 ), theValOps )
RemoveStep ==
    /\ pc = "remove"
    /\ k <= Len(theValOps)
    /\ LET theValOp == theValOps[k]
           valOpIndex == ZipIndex(Len(theValOps), k)
       IN  /\ metAbsent' = (metAbsent \/ (~IsCallback(theValOp) /\ theValOp.src = NoneParm))
           /\ IF IsCallback(theValOp)
              THEN /\ k' = k + 1
                   /\ UNCHANGED << ops, pc, result, lastPrim, nDelete, hostFault >>
              ELSE IF SourcePresent(theValOp)
              THEN /\ nDelete' = nDelete + 1
                   /\ IF valOpIndex \notin 0..(Len(ops) - 1)
                      THEN /\ lastPrim' = [prim |-> "Delete", index |-> valOpIndex]
                           /\ hostFault' = TRUE
                           /\ EndDeleteFailed(valOpIndex)
                           /\ UNCHANGED << ops, k >>
                      ELSE /\ lastPrim' = [prim |-> "Delete", index |-> valOpIndex,
                                           target |-> ops[valOpIndex + 1],
                                           examined |-> theValOp]
                           /\ IF DeleteCrashesHost(ops[valOpIndex + 1])
                              THEN /\ pc' = "crashed"
                                   /\ result' = [kind |-> "crash"]
                                   /\ UNCHANGED << ops, k, hostFault >>
                              ELSE \/ /\ ops' = DeleteAt(ops, valOpIndex)
                                      /\ k' = k + 1
                                      /\ UNCHANGED << pc, result, hostFault >>
                                   \/ /\ hostFault' = TRUE
                                      /\ EndDeleteFailed(valOpIndex)
                                      /\ UNCHANGED << ops, k >>
              ELSE /\ EndRaise("PoserError: SourceParameter() is None")
                   /\ UNCHANGED << ops, k, lastPrim, nDelete, hostFault >>
    /\ UNCHANGED << callVars, theValOps, theValues, nRemove, nRestore, nAdd, getKeyCalls >>

\* Mutant of RemoveReturn: the operations are handed back before the values
\* are read.
RemoveReturnThenRestore ==
    /\ pc = "remove"
    /\ k > Len(theValOps)
    /\ pc' = "restore"
    /\ k' = 1
    /\ nRestore' = nRestore + 1
    /\ UNCHANGED << callVars, ops, theValOps, theValues, result, lastPrim, nRemove,
                    nDelete, nAdd, metAbsent, hostFault,
                    getKeyCalls >>

\* return theValOps
RemoveReturn ==
    /\ pc = "remove"
    /\ k > Len(theValOps)
    /\ pc' = "read"
    /\ UNCHANGED << callVars, ops, theValOps, k, theValues, result, lastPrim, nRemove,
                    nRestore, nDelete, nAdd, metAbsent, hostFault,
                    getKeyCalls >>

\* RestoreValueOperations( theParm, theValOps ) is entered.
EnterRestore ==
    /\ pc' = "restore"
    /\ k' = 1
    /\ nRestore' = nRestore + 1

\* Between the two calls: theParm.Value(), or the loop over the frames.
ReadValue ==
    /\ pc = "read"
    /\ fn \in {"DialValue", "DialValueFrames", "DialAnimation"}
    /\ IF fn = "DialAnimation" /\ ~host.flags
       THEN /\ EndRaise("AttributeError: ConstantAtFrame")
            /\ UNCHANGED << k, nRestore, theValues >>
       ELSE /\ EnterRestore
            /\ theValues' = IF fn = "DialValue" THEN Value(ops, frame)
                            ELSE IF fn = "DialValueFrames"
                            THEN FrameValues(ops, firstFrame, lastFrame)
                            ELSE FrameKeyFrames(ops, firstFrame, lastFrame)
            /\ UNCHANGED result
    /\ UNCHANGED << callVars, ops, theValOps, lastPrim, nRemove, nDelete, nAdd,
                    metAbsent, hostFault,
                    getKeyCalls >>

\* The extra-modular caller hands the list straight back.
CallRestoreValueOperations ==
    /\ pc = "read"
    /\ fn = "RemoveValueOperations"
    /\ EnterRestore
    /\ UNCHANGED << callVars, ops, theValOps, theValues, result, lastPrim, nRemove,
                    nDelete, nAdd, metAbsent, hostFault,
                    getKeyCalls >>

\* One iteration of the loop of RestoreValueOperations.
RestoreStep ==
    /\ pc = "restore"
    /\ k <= Len(theValOps)
    /\ IF IsCallback(theValOps[k])
       THEN /\ k' = k + 1
            /\ getKeyCalls' = << >>
            /\ UNCHANGED << ops, lastPrim, nAdd, pc, result, hostFault >>
       ELSE \/ /\ ops' = Append(ops, RestoredOp(theValOps[k]))
               /\ lastPrim' = [prim |-> "Add", type |-> theValOps[k].type]
               /\ nAdd' = nAdd + 1
               /\ k' = k + 1
               /\ getKeyCalls' = IF theValOps[k].type = kValueOpTypeCodeKEY
                                 THEN KeyIndices(theValOps[k]) ELSE << >>
               /\ UNCHANGED << pc, result, hostFault >>
            \/ /\ lastPrim' = [prim |-> "AddFailed", type |-> theValOps[k].type]
               /\ hostFault' = TRUE
               /\ EndRaise("PoserError: AddValueOperation")
               /\ getKeyCalls' = << >>
               /\ UNCHANGED << ops, nAdd, k >>
    /\ UNCHANGED << callVars, theValOps, theValues, nRemove, nRestore, nDelete,
                    metAbsent >>

\* RestoreValueOperations is through; the entry point returns what it read.
RestoreReturn ==
    /\ pc = "restore"
    /\ k > Len(theValOps)
    /\ pc' = "done"
    /\ result' = Returned(theValues)
    /\ UNCHANGED << callVars, ops, theValOps, k, theValues, lastPrim, nRemove,
                    nRestore, nDelete, nAdd, metAbsent, hostFault,
                    getKeyCalls >>

Next ==
    \/ DialValue
    \/ DialValueFrames
    \/ DialAnimation
    \/ CallRemoveValueOperations
    \/ RemoveStep
    \/ RemoveReturn
    \/ ReadValue
    \/ CallRestoreValueOperations
    \/ RestoreStep
    \/ RestoreReturn

Spec == Init /\ [][Next]_vars

\* LogValueOperations changes nothing on theParm: the debugging calls of a
\* run are followed on their own.
NextLog == LogValueOperations

SpecLog == Init /\ [][NextLog]_vars

\* An extra-modular caller that lists, logs, removes and restores, without
\* the three dial value entry points.
NextCaller ==
    \/ ListValueOperations
    \/ LogValueOperations
    \/ CallRemoveValueOperations
    \/ RemoveStep
    \/ RemoveReturn
    \/ CallRestoreValueOperations
    \/ RestoreStep
    \/ RestoreReturn

SpecCaller == Init /\ [][NextCaller]_vars

\* ------------------------------------------------- PoserUI.TestMethods
\* PoserUI is being imported: nothing probed yet, the scene as the user has
\* it, the dial value module at rest.
InitTest ==
    /\ actorParms \in SUBSET {"xTran", TestParmName}
    /\ animSets \in SUBSET {TestParmName, "Walk"}
    /\ hostMethods \in SUBSET PPM
    /\ PoserPythonMethod = [m \in PPM |-> "None"]
    /\ tmPc = "idle"
    /\ RemoveTestParm = FALSE
    /\ RemoveAnimSet = FALSE
    /\ parmsBefore = actorParms
    /\ animSetsBefore = animSets
    /\ tests = 0
    /\ ops = << >>
    /\ frame = 0
    /\ host = [unaffected |-> FALSE,
               flags |-> PPM_HASKEYATFRAME \in hostMethods]
    /\ remove = TRUE
    /\ pc = "idle"
    /\ fn = "none"
    /\ firstFrame = 0
    /\ lastFrame = 0
    /\ theValOps = << >>
    /\ k = 0
    /\ theValues = << >>
    /\ result = NoResult
    /\ opsBefore = ops
    /\ frameBefore = frame
    /\ lastPrim = NoPrim
    /\ nRemove = 0
    /\ nRestore = 0
    /\ nDelete = 0
    /\ nAdd = 0
    /\ metAbsent = FALSE
    /\ hostFault = FALSE
    /\ calls = 0
    /\ queried = 0
    /\ queriedBefore = FALSE
    /\ getKeyCalls = << >>

\* Mutant of CreatedAnimSet: the set is marked for removal wherever it came from.
CreatedAnimSetOrFound(sets) == TRUE

\* Whether scene.CreateAnimSet( TestParmName ) returns, and RemoveAnimSet is
\* set: poser.error is raised for a name that is taken.
CreatedAnimSet(sets) == TestParmName \notin sets

\* One test of a method: the dict entry after it.
MethodTested(m) ==
    IF PoserPythonMethod[m] # "None" THEN PoserPythonMethod[m]
    ELSE IF m \in hostMethods THEN "True"
    ELSE "False"

\* TestMethods( theParm ) up to the tests: the parameter to test on is
\* theParm, or the first parameter of the first actor, or one created for it.
TestMethods ==
    \E given \in BOOLEAN :
        /\ tmPc \in {"idle", "done"}
        /\ tests < MaxTests
        /\ given => actorParms # {}
        /\ tests' = tests + 1
        /\ parmsBefore' = actorParms
        /\ animSetsBefore' = animSets
        /\ RemoveAnimSet' = FALSE
        /\ IF ~given /\ actorParms = {}
           THEN /\ actorParms' = actorParms \cup {TestParmName}
                /\ RemoveTestParm' = TRUE
           ELSE /\ actorParms' = actorParms
                /\ RemoveTestParm' = FALSE
        /\ tmPc' = "test"
        /\ UNCHANGED << animSets, hostMethods, PoserPythonMethod, dialVars >>

\* The five tests, each made only while its dict entry is None.
TestMethodsTests ==
    /\ tmPc = "test"
    /\ PoserPythonMethod' = [m \in PPM |-> MethodTested(m)]
    /\ IF PoserPythonMethod[PPM_ANIMSETNAME] = "None" /\ CreatedAnimSet(animSets)
       THEN /\ animSets' = animSets \cup {TestParmName}
            /\ RemoveAnimSet' = TRUE
       ELSE UNCHANGED << animSets, RemoveAnimSet >>
    /\ tmPc' = "remove"
    /\ UNCHANGED << actorParms, hostMethods, RemoveTestParm, parmsBefore, animSetsBefore,
                    tests, dialVars >>

\* The last four lines: what was created for the tests is removed.
TestMethodsRemove ==
    /\ tmPc = "remove"
    /\ actorParms' = IF RemoveTestParm THEN actorParms \ {TestParmName} ELSE actorParms
    /\ animSets' = IF RemoveAnimSet THEN animSets \ {TestParmName} ELSE animSets
    /\ tmPc' = "done"
    /\ UNCHANGED << hostMethods, PoserPythonMethod, RemoveTestParm, RemoveAnimSet,
                    parmsBefore, animSetsBefore, tests, dialVars >>

NextTest ==
    \/ TestMethods
    \/ TestMethodsTests
    \/ TestMethodsRemove

SpecTest == InitTest /\ [][NextTest]_vars

\* ------------------------------------------------------------ properties
EntryPoints == {"DialValue", "DialValueFrames", "DialAnimation"}

\* No operation of the list is a non-callback operation without source parameter.
WellFormed(oplist) ==
    \A j \in 1..Len(oplist) :
        oplist[j].type = kValueOpTypeCodePYTHONCALLBACK \/ oplist[j].src # NoneParm

NoCallbacks(oplist) == \A j \in 1..Len(oplist) : ~IsCallback(oplist[j])

Callbacks(oplist) == SelectSeq(oplist, IsCallback)

DeletedOp == lastPrim.prim = "Delete" /\ "target" \in DOMAIN lastPrim

\* C1: in every execution of RemoveValueOperations, DeleteValueOperation is
\* never invoked on an index whose operation has, at that moment, no source
\* parameter.
C1_NeverDeletesAbsentSource ==
    ~(DeletedOp /\ ~IsCallback(lastPrim.target) /\ lastPrim.target.src = NoneParm)

\* C2: for a parameter with at least one operation, every non-callback one
\* with a source, RemoveValueOperations followed at once by
\* RestoreValueOperations leaves the operation list identical: same count and
\* at each index the same type, source, delta and control points.
C2_RoundTripIdentity ==
    ( /\ pc = "done"
      /\ fn = "RemoveValueOperations"
      /\ result.kind = "return"
      /\ Len(opsBefore) >= 1
      /\ WellFormed(opsBefore) )
    => ops = opsBefore

\* C3: for a parameter holding a non-callback operation without source,
\* RemoveValueOperations ends with an error and the operation list is then
\* exactly the list before the call.
C3_CorruptLeavesListIntact ==
    ( /\ pc = "done"
      /\ fn = "RemoveValueOperations"
      /\ ~WellFormed(opsBefore) )
    => (result.kind = "raise" /\ ops = opsBefore)

\* C4: whenever DialValue, DialValueFrames or DialAnimation ends after its
\* extraction met an operation without source, the operation list equals the
\* list before the call.
C4_NeverHalfExtracted ==
    (pc = "done" /\ fn \in EntryPoints /\ metAbsent) => ops = opsBefore

\* C5: during a remove / restore cycle DeleteValueOperation is never invoked
\* on a python callback, AddValueOperation never with the callback type, and
\* every callback attached before the cycle is attached in every state of it.
C5_CallbacksUntouched ==
    /\ ~(DeletedOp /\ IsCallback(lastPrim.target))
    /\ ~(lastPrim.prim = "Add" /\ lastPrim.type = kValueOpTypeCodePYTHONCALLBACK)
    /\ Callbacks(ops) = Callbacks(opsBefore)

\* C6: once the extraction of an entry point has removed operations, every
\* exit of the call, an exit caused by the value read raising included, comes
\* after RestoreValueOperations has run.  (Stated for the exits that no absent
\* source and no throwing DeleteValueOperation caused.)
C6_RestoreOnEveryExit ==
    ( /\ pc = "done"
      /\ fn \in EntryPoints
      /\ nDelete > 0
      /\ ~metAbsent
      /\ ~hostFault )
    => nRestore = 1

\* C7: on a host without UnaffectedValue(), for a parameter whose operations
\* are one or more non-callback operations with sources, DialValue returns the
\* keyframe-only value and the operation list after the call equals the list
\* before it.  (remove is at its default, True, and no host primitive threw.)
C7_DialValueIsKeyframeValue ==
    ( /\ pc = "done"
      /\ fn = "DialValue"
      /\ ~host.unaffected
      /\ remove
      /\ ~hostFault
      /\ Len(opsBefore) >= 1
      /\ NoCallbacks(opsBefore)
      /\ WellFormed(opsBefore) )
    => ( /\ result.kind = "return"
         /\ result.val = KeyframeValue(frameBefore)
         /\ ops = opsBefore )

\* C7's case: dial 2.0, one additive delta of 0.5 on a source at 4.0, computed
\* value 4.0; DialValue has returned 2.0.
C7_Witness ==
    /\ pc = "done"
    /\ fn = "DialValue"
    /\ ~host.unaffected
    /\ remove
    /\ opsBefore = << MkOp(kValueOpTypeCodeDELTAADD, SrcParm, 1, << >>) >>
    /\ frameBefore = 0
    /\ Value(opsBefore, frameBefore) = 8
    /\ result.kind = "return"
    /\ result.val = 4
    /\ nDelete = 1
    /\ nAdd = 1

\* C8: after DialValueFrames or DialAnimation returns or raises, the scene's
\* current frame is the frame that was current before the call.
C8_FrameRestored ==
    (pc = "done" /\ fn \in {"DialValueFrames", "DialAnimation"}) => frame = frameBefore

\* C9 as claimed: when the extraction of DialValue fails on an operation
\* without source, DialValue returns the raw computed value Value().
C9_FallsBackToValue ==
    (pc = "done" /\ fn = "DialValue" /\ metAbsent)
    => (result.kind = "return" /\ result.val = Value(ops, frame))

\* C9 as amended: when the extraction of DialValue examines an operation
\* without source, DialValue ends with the exception RemoveValueOperations
\* raised, and returns no value.
C9_PropagatesError ==
    (pc = "done" /\ fn = "DialValue" /\ metAbsent)
    => ( /\ result.kind = "raise"
         /\ result.val = "PoserError: SourceParameter() is None" )

C9_Witness ==
    /\ pc = "done"
    /\ fn = "DialValue"
    /\ metAbsent
    /\ result.kind = "raise"
    /\ nDelete > 0

\* C10: for a parameter with no value operation on a host without
\* UnaffectedValue(), DialValue returns exactly Value() and calls neither
\* RemoveValueOperations nor RestoreValueOperations, neither
\* DeleteValueOperation nor AddValueOperation.
C10_ZeroOperationShortcut ==
    (fn = "DialValue" /\ ~host.unaffected /\ opsBefore = << >>)
    => ( /\ pc = "done"
         /\ result.kind = "return"
         /\ result.val = Value(opsBefore, frameBefore)
         /\ nRemove = 0
         /\ nRestore = 0
         /\ nDelete = 0
         /\ nAdd = 0
         /\ ops = << >> )

C10_Witness ==
    /\ pc = "done"
    /\ fn = "DialValue"
    /\ ~host.unaffected
    /\ opsBefore = << >>
    /\ result.kind = "return"
    /\ result.val = KeyframeValue(0)

\* C11: on a host with UnaffectedValue(), DialValue returns that query's
\* result and mutates nothing: no operation is deleted or added and the
\* operation list is unchanged, whatever operations theParm has.
C11_FastPathNoMutation ==
    (fn = "DialValue" /\ host.unaffected)
    => ( /\ pc = "done"
         /\ result.kind = "return"
         /\ result.val = UnaffectedValue(frameBefore)
         /\ nRemove = 0
         /\ nRestore = 0
         /\ nDelete = 0
         /\ nAdd = 0
         /\ ops = opsBefore
         /\ frame = frameBefore )

\* C11's case: the fast path on a parameter holding a callback and an
\* operation without source.
C11_Witness ==
    /\ pc = "done"
    /\ fn = "DialValue"
    /\ host.unaffected
    /\ result.kind = "return"
    /\ \E i \in 1..Len(ops) : ops[i].type = kValueOpTypeCodePYTHONCALLBACK
    /\ \E i \in 1..Len(ops) : ops[i].type # kValueOpTypeCodePYTHONCALLBACK /\ ops[i].src = NoneParm

\* The two renderings of DialValue agree: what the steps return is what
\* DialValueOutcome computes.
DialValueOutcomeIsDialValue ==
    (fn = "DialValue" /\ pc = "done" /\ ~hostFault)
    => /\ result.kind = DialValueOutcome(opsBefore, frameBefore).kind
       /\ result.kind = "return" => result.val = DialValueOutcome(opsBefore, frameBefore).val

\* C12: DialValueFrames( P, a, b )[i] is the value DialValue( P ) returns with
\* the scene at frame a + i, for every i of the range (remove at its default).
C12_FramesAgreeWithDialValue ==
    (fn = "DialValueFrames" /\ pc = "done" /\ remove /\ ~hostFault /\ result.kind = "return")
    => \A i \in 1..Len(result.val) :
          /\ DialValueOutcome(opsBefore, firstFrame + i - 1).kind = "return"
          /\ DialValueOutcome(opsBefore, firstFrame + i - 1).val = result.val[i]

\* The operations attached to theParm while the finished call read its
\* values: RestoreValueOperations only appends, so they are what precedes the
\* nAdd operations it added.
AttachedAtRead == SubSeq(ops, 1, Len(ops) - nAdd)

\* C13: a DialValueFrames call that returns gives lastFrame - firstFrame + 1
\* values, the i-th being the value for frame firstFrame + i (counting from
\* 0), on the single-frame query path and on the removal path.
C13_OneValuePerFrame ==
    (fn = "DialValueFrames" /\ pc = "done" /\ result.kind = "return")
    => /\ Len(result.val) = lastFrame - firstFrame + 1
       /\ \A i \in 1..Len(result.val) :
             result.val[i] =
                IF firstFrame = lastFrame /\ host.unaffected
                THEN UnaffectedValue(firstFrame + i - 1)
                ELSE ValueFrame(AttachedAtRead, firstFrame + i - 1)

\* C13's case: a range of more than one frame read on the removal path.
C13_Witness ==
    /\ fn = "DialValueFrames"
    /\ pc = "done"
    /\ result.kind = "return"
    /\ firstFrame < lastFrame
    /\ nDelete > 0
    /\ Len(result.val) = lastFrame - firstFrame + 1

\* Whether the finished or running DialValueFrames call is one that takes the
\* removal path: no single-frame answer, operations on theParm, remove set.
OnRemovalPath ==
    /\ fn = "DialValueFrames"
    /\ pc # "idle"
    /\ ~(firstFrame = lastFrame /\ host.unaffected)
    /\ Len(opsBefore) > 0
    /\ remove

\* The per-frame reads of the call have been made.
FramesRead == Len(theValues) = lastFrame - firstFrame + 1

C14_CallCounts ==
    OnRemovalPath
    => /\ nRemove = 1
       /\ nRestore <= 1
       /\ pc \in {"remove", "read"} => (nRestore = 0 /\ nAdd = 0 /\ ~FramesRead)
       /\ pc = "restore" => (nRestore = 1 /\ FramesRead)
       /\ (pc = "done" /\ result.kind = "return") => (nRestore = 1 /\ FramesRead)
       /\ (pc = "done" /\ result.kind = "raise" /\ nRestore = 0) => (nAdd = 0 /\ ~FramesRead)
       /\ (pc = "done" /\ result.kind = "raise" /\ nRestore = 1) => FramesRead

C14_EventOrder ==
    OnRemovalPath
    => /\ nDelete' > nDelete => (~FramesRead /\ nAdd = 0 /\ nRestore = 0)
       /\ (FramesRead' /\ ~FramesRead) => (nAdd = 0 /\ nDelete' = nDelete /\ pc = "read")
       /\ nAdd' > nAdd => (FramesRead /\ nDelete' = nDelete /\ nRestore = 1)

C16_OnlyCallbacksRemain ==
    (pc = "read" /\ nRemove = 1)
    => ops = Callbacks(opsBefore)

\* C17: RestoreValueOperations on a parameter that holds the callbacks of the
\* snapshot and nothing else gives back the snapshot's sequence: every
\* callback at the index it has in the snapshot, the restored operations
\* around it.
C17_RestoreKeepsPositions ==
    ( /\ pc = "restore"
      /\ k > Len(theValOps)
      /\ AttachedAtRead = Callbacks(theValOps) )
    => ops = theValOps

\* C18: a host query that is not there (UnaffectedValue, or a per-frame flag
\* query such as ConstantAtFrame or HasKeyAtFrame) never reaches the caller
\* of DialValue, DialValueFrames or DialAnimation as an error.
C18_MissingQueryAbsorbed ==
    (fn \in EntryPoints /\ pc = "done" /\ result.kind = "raise")
    => result.val # "AttributeError: ConstantAtFrame"

\* C15: LogValueOperations raises nothing on account of theParm's operations
\* and returns False exactly when an operation that is no callback has no
\* source parameter; it returns True otherwise, with no operation as well.
C15_LogReturnsFalseIffAbsentSource ==
    (fn = "LogValueOperations" /\ pc = "done")
    => /\ result.kind = "return"
       /\ result.val = ~(\E i \in 1..Len(opsBefore) :
                            /\ opsBefore[i].type # kValueOpTypeCodePYTHONCALLBACK
                            /\ opsBefore[i].src = NoneParm)
       /\ ops = opsBefore

\* C15's case: False for a list whose operation without source comes after a
\* callback and a sound operation.
C15_Witness ==
    /\ fn = "LogValueOperations"
    /\ pc = "done"
    /\ result.kind = "return"
    /\ result.val = FALSE
    /\ Len(ops) = 3
    /\ ops[1].type = kValueOpTypeCodePYTHONCALLBACK
    /\ ops[2].src = SrcParm
    /\ ops[3].type # kValueOpTypeCodePYTHONCALLBACK /\ ops[3].src = NoneParm

C21_SnapshotIsPreCallList ==
    (nRemove = 1 /\ pc \in {"read", "restore"})
    => theValOps = opsBefore

\* C21's case: RemoveValueOperations has returned a list with a callback and a
\* keyed operation, after deleting.
C21_Witness ==
    /\ nRemove = 1
    /\ pc = "read"
    /\ nDelete > 0
    /\ \E i \in 1..Len(theValOps) : theValOps[i].type = kValueOpTypeCodePYTHONCALLBACK
    /\ \E i \in 1..Len(theValOps) :
          /\ theValOps[i].type = kValueOpTypeCodeKEY
          /\ Len(theValOps[i].keys) = 2

\* The entries of a list that are no callbacks, in the list's order.
NonCallbacks(oplist) ==
    SelectSeq(oplist, LAMBDA op : op.type # kValueOpTypeCodePYTHONCALLBACK)

\* The snapshot entries RestoreValueOperations has gone through.
EntriesRestored == SubSeq(theValOps, 1, k - 1)

\* C22: RestoreValueOperations adds one operation for every entry of the
\* snapshot that is no callback, in the snapshot's order, with the entry's
\* type and source; a deltaAdd gets the entry's delta, a keyed operation the
\* entry's keys in their order, any other type nothing more; the operation
\* count grows by the number of such entries.
C22_RestoreAddsEntriesInOrder ==
    (pc = "restore")
    => /\ nAdd = Len(NonCallbacks(EntriesRestored))
       /\ Len(ops) = Len(RemoveLoop(opsBefore, opsBefore, 1).ops) + nAdd
       /\ SubSeq(ops, 1, Len(ops) - nAdd) = RemoveLoop(opsBefore, opsBefore, 1).ops
       /\ SubSeq(ops, Len(ops) - nAdd + 1, Len(ops)) = NonCallbacks(EntriesRestored)

\* C22's case: the loop is through a snapshot with a deltaAdd, a keyed
\* operation and a plus, each re-added.
C22_Witness ==
    /\ pc = "restore"
    /\ k > Len(theValOps)
    /\ nAdd = 3
    /\ \E i \in 1..Len(ops) : ops[i].type = kValueOpTypeCodeDELTAADD /\ ops[i].delta = 1
    /\ \E i \in 1..Len(ops) : ops[i].type = kValueOpTypeCodeKEY /\ Len(ops[i].keys) = 2
    /\ \E i \in 1..Len(ops) : ops[i].type = kValueOpTypeCodePLUS

\* C23: when AddValueOperation fails for an entry of the snapshot,
\* RestoreValueOperations goes on with the entries behind it: none that could
\* be restored is left out.
C23_RestoreGoesOnAfterFailure ==
    (pc = "done" /\ result.kind = "raise" /\ lastPrim.prim = "AddFailed")
    => \A j \in (k + 1)..Len(theValOps) :
          theValOps[j].type = kValueOpTypeCodePYTHONCALLBACK

\* C24: when DeleteValueOperation throws, the call ends with an error naming
\* theParm and the index whose deletion failed, and that deletion is the last
\* one attempted in the call.
C24_DeleteFailureNamesIndex ==
    (pc = "done" /\ result.kind = "raise"
        /\ result.val = "PoserError: Failed in DeleteValueOperation")
    => /\ lastPrim.prim = "Delete"
       /\ result.parm = "theParm"
       /\ result.index = lastPrim.index
       /\ result.index = ZipIndex(Len(theValOps), k)
       /\ Len(ops) = Len(opsBefore) - (nDelete - 1)
       /\ nAdd = 0

\* C24's case: the second deletion of a call threw.
C24_Witness ==
    /\ pc = "done"
    /\ result.kind = "raise"
    /\ result.val = "PoserError: Failed in DeleteValueOperation"
    /\ hostFault
    /\ nDelete = 2
    /\ Len(ops) = Len(opsBefore) - 1

\* The two renderings of DialValueFrames agree: what the steps return is what
\* DialValueFramesOutcome computes.
DialValueFramesOutcomeIsDialValueFrames ==
    (fn = "DialValueFrames" /\ pc = "done" /\ ~hostFault)
    => /\ result.kind = DialValueFramesOutcome(opsBefore, firstFrame, lastFrame).kind
       /\ result.kind = "return"
          => result.val = DialValueFramesOutcome(opsBefore, firstFrame, lastFrame).val

\* C25: a DialAnimation call that returns gives one KeyFrame per frame of the
\* range, ascending, with that frame in its frame field and in its value
\* field the element DialValueFrames returns at the same position; the flag
\* queries bring no RemoveValueOperations or RestoreValueOperations call
\* beyond the one pair of the removal path.
C25_AnimationValuesAreFrameValues ==
    (fn = "DialAnimation" /\ pc = "done" /\ result.kind = "return")
    => /\ Len(result.val) = lastFrame - firstFrame + 1
       /\ DialValueFramesOutcome(opsBefore, firstFrame, lastFrame).kind = "return"
       /\ \A i \in 1..Len(result.val) :
             /\ result.val[i].frame = firstFrame + i - 1
             /\ result.val[i].value =
                   DialValueFramesOutcome(opsBefore, firstFrame, lastFrame).val[i]
       /\ nRemove = nRestore
       /\ nRemove = IF ~(firstFrame = lastFrame /\ host.unaffected)
                       /\ Len(opsBefore) > 0 /\ remove
                    THEN 1 ELSE 0

\* C25's case: DialAnimation over two frames on the removal path has returned.
C25_Witness ==
    /\ fn = "DialAnimation"
    /\ pc = "done"
    /\ result.kind = "return"
    /\ firstFrame < lastFrame
    /\ nRemove = 1
    /\ nDelete > 0
    /\ Len(result.val) = 2

\* C26: in every iteration of RemoveValueOperations the index handed to
\* DeleteValueOperation designates the operation whose type and source the
\* iteration examined: what is deleted is what was tested.
C26_DeletesWhatItExamined ==
    DeletedOp => lastPrim.target = lastPrim.examined

\* A DeleteValueOperation call is made in this step.
DeleteCalled == nDelete' = nDelete + 1

C27_IndexOrder ==
    DeleteCalled
    => /\ lastPrim'.prim = "Delete"
       /\ lastPrim'.index \in 0..(Len(ops) - 1)
       /\ nDelete >= 1 => lastPrim'.index < lastPrim.index

\* C27: within one RemoveValueOperations call the indices handed to
\* DeleteValueOperation go strictly down, and each is below the number of
\* operations theParm has at that moment.
C27_IndicesDecreasingInRange == [][C27_IndexOrder]_vars

\* C27's case: three deletions made in one call, the last at index 0.
C27_Witness ==
    /\ pc = "read"
    /\ nDelete = 3
    /\ lastPrim.prim = "Delete"
    /\ lastPrim.index = 0

\* The indices 0..n-1, ascending.
ZeroBased(n) == [j \in 1..n |-> j - 1]

\* For every keyed operation of a list that has its source, in the list's
\* order, the indices 0..N-1 of its N keys.
RECURSIVE ZeroBasedReads(_)
ZeroBasedReads(oplist) ==
    IF oplist = << >> THEN << >>
    ELSE IF Head(oplist).type = kValueOpTypeCodeKEY /\ Head(oplist).src # NoneParm
    THEN ZeroBased(Len(Head(oplist).keys)) \o ZeroBasedReads(Tail(oplist))
    ELSE ZeroBasedReads(Tail(oplist))

\* The entries of a list before its first one that is no callback and has no
\* source: what LogValueOperations gets to see.
RECURSIVE BeforeAbsentSource(_)
BeforeAbsentSource(oplist) ==
    IF oplist = << >> THEN << >>
    ELSE IF Head(oplist).type # kValueOpTypeCodePYTHONCALLBACK /\ Head(oplist).src = NoneParm
    THEN << >>
    ELSE << Head(oplist) >> \o BeforeAbsentSource(Tail(oplist))

\* C28: for a keyed operation with N keys, RestoreValueOperations,
\* ListValueOperations and LogValueOperations call GetKey with 0..N-1, each
\* once and in this order, never with N; the first key inserted into the
\* restored operation is key 0 of the original, and the restored keys are the
\* original's.
C28_GetKeyZeroBased ==
    /\ (pc = "restore" /\ k > 1 /\ theValOps[k - 1].type = kValueOpTypeCodeKEY)
       => /\ getKeyCalls = ZeroBased(Len(theValOps[k - 1].keys))
          /\ ops[Len(ops)].keys = theValOps[k - 1].keys
          /\ ops[Len(ops)].keys[1] = theValOps[k - 1].keys[1]
    /\ (fn = "LogValueOperations" /\ pc = "done")
       => getKeyCalls = ZeroBasedReads(BeforeAbsentSource(opsBefore))
    /\ (fn = "ListValueOperations" /\ pc = "done")
       => getKeyCalls = ZeroBasedReads(opsBefore)

\* C28's case: RestoreValueOperations has just re-added a keyed operation of
\* two keys.
C28_Witness ==
    /\ pc = "restore"
    /\ k > 1
    /\ theValOps[k - 1].type = kValueOpTypeCodeKEY
    /\ getKeyCalls = << 0, 1 >>
    /\ Len(ops[Len(ops)].keys) = 2

\* ListValueOperations and LogValueOperations have read the keys of a list
\* with a keyed operation.
ListAndLogReadKeys ==
    /\ fn \in {"ListValueOperations", "LogValueOperations"}
    /\ pc = "done"
    /\ getKeyCalls = << 0, 1 >>

\* C29: DialValueFrames and DialAnimation take no notice of the remove flag:
\* with operations on theParm and no single-frame answer from the host, the
\* operations are removed and restored and the values are those read without
\* them, whether remove is True or False.
C29_RemoveFlagIgnored ==
    ( /\ fn \in {"DialValueFrames", "DialAnimation"}
      /\ pc = "done"
      /\ result.kind = "return"
      /\ ~(firstFrame = lastFrame /\ host.unaffected)
      /\ Len(opsBefore) > 0 )
    => /\ nRemove = 1
       /\ nRestore = 1
       /\ fn = "DialValueFrames"
          => result.val = FrameValues(RemoveLoop(opsBefore, opsBefore, 1).ops,
                                      firstFrame, lastFrame)

\* C30: with remove False, no UnaffectedValue() on the host and operations on
\* theParm, DialValue returns a value; it raises nothing and deletes and adds
\* no operation.
C30_InterpolationReturns ==
    ( /\ fn = "DialValue"
      /\ pc = "done"
      /\ ~remove
      /\ ~host.unaffected
      /\ Len(opsBefore) > 0 )
    => /\ result.kind = "return"
       /\ nDelete = 0
       /\ nAdd = 0
       /\ ops = opsBefore

TypeOK ==
    /\ ops \in Seq(ValOpAlphabet)
    /\ Len(ops) <= MaxOps
    /\ frame \in Frames
    /\ pc \in {"idle", "remove", "read", "restore", "done", "crashed"}
    /\ result.kind \in {"none", "return", "raise", "crash"}
    /\ nDelete <= MaxOps /\ nAdd <= MaxOps

====
